---- MODULE Spec2Model ----
(***************************************************************************)
(* A model of src/spermatogenesis_model.py: the Spermatogenesis simulator  *)
(* (founder sampling, binomial fission, two-round meiosis, the viability   *)
(* classifier and the make_sperms / get_viable_sprems driver).             *)
(*                                                                         *)
(* Conventions.                                                            *)
(*  - A proteome (a Python dict) is a function from its keys to integers;  *)
(*    a Cell is its proteome (Cell only wraps the dict).                   *)
(*  - The source is Python 2 (dict.values() is a list, float() guards the  *)
(*    division), so np.array(mother_prot.values()) is an integer vector.   *)
(*  - cutoff, crucial_prot and cv are floats; the model keeps them as      *)
(*    integers counting quarters (2 is 0.5, 4 is 1.0, 6 is 1.5).  Quarters *)
(*    and the small integers of the model are exact in IEEE doubles, so    *)
(*    count >= cutoff * ref is 4 * count >= q * ref without rounding.      *)
(*  - A random draw is a nondeterministic choice over every value the      *)
(*    draw can produce (within the bounds of the model).                   *)
(*  - An exception leaves its name in err and no value in ret.             *)
(***************************************************************************)
EXTENDS Integers, Sequences, FiniteSets

VARIABLES
    constructed,    \* an instance exists (__init__ returned)
    ctor,           \* the arguments __init__ was called with
    ref,            \* self.ref
    cv,             \* self.cv, in quarters
    cutoff,         \* self.cutoff, in quarters
    crucial_prot,   \* self.crucial_prot, in quarters
    spermatogonia,  \* self.spermatogonia.proteome
    load,           \* self.load
    hasLoad,        \* the attribute self.load has been set
    pc,             \* position of make_sperms: "idle" or "loop"
    t,              \* make_sperms: its argument
    i,              \* make_sperms: trials completed by the loop
    sperms,         \* make_sperms: the local list sperms
    ret,            \* the last top-level call: its name, arguments and value
    err             \* the exception the last call raised, or "none"

vars == <<constructed, ctor, ref, cv, cutoff, crucial_prot, spermatogonia,
          load, hasLoad, pc, t, i, sperms, ret, err>>

----------------------------------------------------------------------------
(* Bounds of the model *)

\* largest count of a proteome handed to fission / held by a drawn founder
MaxN == 2
\* largest reference count and gamete count in the classifier's inputs
MaxGam == 2
\* reference counts of a whole simulator run, and the values of the normal
\* draw it samples, in halves (from -1.5 to 1.5)
LifeCounts == {0, 1}
DrawHalves == { h - 3 : h \in 0..6 }
\* largest argument of make_sperms
MaxT == 2

\* dict key sets
KeySets == {{}, {"A"}, {"A", "B"}}
LifeKeySets == {{}, {"A"}}

Proteomes(keys, lo, hi) == [keys -> lo..hi]

NonNeg(p) == \A k \in DOMAIN p : p[k] >= 0

NoRet == [op |-> "none", args |-> <<>>, cells |-> <<>>, mid |-> <<>>,
          n |-> 0, b |-> FALSE]

----------------------------------------------------------------------------
(* fission and do_meiosis *)

\* np.random.binomial(1, 0.5, n).sum(): the number of successes in n fair
\* draws, any value of 0..n; n = 0 gives an empty array whose sum is 0
binomial_sum(n) == 0..n

\* np.random.binomial(1, 0.5, n) raises ValueError for a negative size n
fission_raises(mother_prot) == \E k \in DOMAIN mother_prot : mother_prot[k] < 0

\* line 76: the vectors daughter_1_prot can be, one binomial sum per protein
daughter_1_draws(mother_prot) ==
    LET hi == IF DOMAIN mother_prot = {} THEN 0
              ELSE CHOOSE x \in { mother_prot[k] : k \in DOMAIN mother_prot } :
                       \A k \in DOMAIN mother_prot : x >= mother_prot[k]
    IN { f \in [DOMAIN mother_prot -> 0..hi] :
           \A k \in DOMAIN mother_prot : f[k] \in binomial_sum(mother_prot[k]) }

\* a plausible slip: the second daughter drawn like the first
fission_redrawn(mother_prot) ==
    { <<d1, d2>> : d1 \in daughter_1_draws(mother_prot),
                   d2 \in daughter_1_draws(mother_prot) }

\* the pairs (daughter_1, daughter_2) fission can return for a mother with
\* non-negative counts: daughter_1 drawn, daughter_2 the difference (line 81)
fission(mother_prot) ==
    { <<d1, [k \in DOMAIN mother_prot |-> mother_prot[k] - d1[k]]>> :
        d1 \in daughter_1_draws(mother_prot) }

\* a plausible slip: the second round divides c1 twice
do_meiosis_c1_twice(founder) ==
    UNION { UNION { { [mid |-> <<p[1], p[2]>>, cells |-> <<q[1], q[2], r[1], r[2]>>] :
                        r \in fission(p[1]) } : q \in fission(p[1]) } : p \in fission(founder) }

\* the outcomes of do_meiosis for a founder with non-negative counts: the
\* locals (c1, c2) and the returned list [s1, s2, s3, s4]
do_meiosis(founder) ==
    UNION { UNION { { [mid |-> <<p[1], p[2]>>, cells |-> <<q[1], q[2], r[1], r[2]>>] :
                        r \in fission(p[2]) } : q \in fission(p[1]) } : p \in fission(founder) }

\* do_meiosis raises when its first fission does; c1 and c2 are never negative
do_meiosis_raises(founder) == fission_raises(founder)

----------------------------------------------------------------------------
(* randomize_proteome *)

\* int(x) of a float: truncation toward zero; h counts halves (h = -1 is -0.5)
int_trunc(h) == IF h >= 0 THEN h \div 2 ELSE 0 - ((0 - h) \div 2)

\* int(np.random.normal(mean, std)) for std >= 0: the mean itself when the
\* scale is zero, otherwise the truncation of any real (here of the given halves)
normal_draws(mean, scale, halves) ==
    IF scale = 0 THEN {mean}
    ELSE { int_trunc(h) : h \in halves }

\* np.random.normal raises ValueError when the sign bit of the scale is set;
\* std = mean * cv with mean >= 0 has it set exactly when cv < 0 (0 * cv is -0.0)
randomize_raises(r, c) == c < 0 /\ DOMAIN r # {}

\* the proteomes randomize_proteome can return
randomize_proteome(r, c, halves) ==
    { f \in [DOMAIN r -> { int_trunc(h) : h \in halves } \cup { r[k] : k \in DOMAIN r }] :
        \A k \in DOMAIN r : f[k] \in normal_draws(r[k], r[k] * c, halves) }

----------------------------------------------------------------------------
(* is_viable and get_viable_sprems *)

\* a plausible slip: strict comparison with the cutoff
functional_strict(count, q, r) == 4 * count > q * r

\* a plausible slip: the comparison turned around
functional_reversed(count, q, r) == 4 * count <= q * r

\* line 111: sperm.proteome[i] >= self.cutoff * self.ref[i]
functional(count, q, r) == 4 * count >= q * r

\* lines 109-112: the loop that counts the functional proteins
RECURSIVE prot_count(_, _, _, _)
prot_count(keys, sperm, r, q) ==
    IF keys = {} THEN 0
    ELSE LET k == CHOOSE x \in keys : TRUE
         IN (IF functional(sperm[k], q, r[k]) THEN 1 ELSE 0)
            + prot_count(keys \ {k}, sperm, r, q)

\* line 113: the division raises ZeroDivisionError for a proteome without keys
is_viable_raises(sperm) == Cardinality(DOMAIN sperm) = 0

\* lines 113-116: prot_count / float(len) >= crucial_prot, for len > 0
is_viable(sperm, r, q, cp) ==
    4 * prot_count(DOMAIN sperm, sperm, r, q) >= cp * Cardinality(DOMAIN sperm)

\* line 138 raises when is_viable does for some gamete of the load
get_viable_raises(gametes) == \E k \in 1..Len(gametes) : is_viable_raises(gametes[k])

\* lines 138-139: sum of the booleans is_viable gives for the load
RECURSIVE get_viable_sprems(_, _, _, _)
get_viable_sprems(gametes, r, q, cp) ==
    IF gametes = <<>> THEN 0
    ELSE (IF is_viable(Head(gametes), r, q, cp) THEN 1 ELSE 0)
         + get_viable_sprems(Tail(gametes), r, q, cp)

----------------------------------------------------------------------------
(* __init__ *)

\* constructor arguments: cutoff and crucial_prot are a Python value with its
\* type (float or not) and its magnitude in quarters
Float(q) == [isFloat |-> TRUE, q |-> q]
\* a value that is no float, such as the string "2.0"; its q is never read
NotFloat == [isFloat |-> FALSE, q |-> 8]

CtorArgs ==
    { [ref |-> r, cutoff |-> c, crucial_prot |-> p, cv |-> v] :
        r \in UNION { [keys -> LifeCounts] : keys \in LifeKeySets },
        c \in {Float(2), Float(6), NotFloat},
        p \in {Float(2), Float(4), NotFloat},
        v \in {0 - 2, 0, 2} }

\* the state in which no instance exists because __init__ raised e
InitFailed(a, e) ==
    /\ constructed = FALSE
    /\ ctor = a
    /\ ref = <<>> /\ cv = 0 /\ cutoff = 0 /\ crucial_prot = 0
    /\ spermatogonia = <<>>
    /\ load = <<>> /\ hasLoad = FALSE
    /\ pc = "idle" /\ t = 0 /\ i = 0 /\ sperms = <<>>
    /\ ret = NoRet
    /\ err = e

\* the state of a fresh instance with the founder proteome p
InitLive(a, p) ==
    /\ constructed = TRUE
    /\ ctor = a
    /\ ref = a.ref /\ cv = a.cv
    /\ cutoff = a.cutoff.q /\ crucial_prot = a.crucial_prot.q
    /\ spermatogonia = p
    /\ load = <<>> /\ hasLoad = FALSE
    /\ pc = "idle" /\ t = 0 /\ i = 0 /\ sperms = <<>>
    /\ ret = NoRet
    /\ err = "none"

\* __init__(ref, cutoff, crucial_prot, cv): the two asserts, then the founder
__init__(a) ==
    IF ~a.cutoff.isFloat \/ ~a.crucial_prot.isFloat
    THEN InitFailed(a, "AssertionError")
    ELSE IF randomize_raises(a.ref, a.cv)
    THEN InitFailed(a, "ValueError")
    ELSE \E p \in randomize_proteome(a.ref, a.cv, DrawHalves) : InitLive(a, p)

Init == \E a \in CtorArgs : __init__(a)

----------------------------------------------------------------------------
(* make_sperms and get_viable_sprems *)

\* make_sperms(n): line 124, sperms = []
MakeSpermsCall ==
    /\ constructed /\ pc = "idle"
    /\ \E n \in 0..MaxT : t' = n
    /\ pc' = "loop" /\ i' = 0 /\ sperms' = <<>>
    /\ ret' = NoRet /\ err' = "none"
    /\ UNCHANGED <<constructed, ctor, ref, cv, cutoff, crucial_prot,
                   spermatogonia, load, hasLoad>>

\* a plausible slip: the list rebound to the last round instead of extended
extend_rebinds(list, one_round) == one_round

\* line 127: sperms.extend(one_round)
extend(list, one_round) == list \o one_round

\* a plausible slip: the load appended to the earlier one
store_load_appends(old, new) == old \o new

\* line 130: self.load = sperms
store_load(old, new) == new

\* the exit of make_sperms by an exception e: the locals are gone
MakeSpermsRaise(e) ==
    /\ pc' = "idle" /\ i' = 0 /\ sperms' = <<>>
    /\ ret' = [NoRet EXCEPT !.op = "make_sperms"] /\ err' = e
    /\ UNCHANGED <<constructed, ctor, ref, cv, cutoff, crucial_prot,
                   spermatogonia, load, hasLoad, t>>

\* one pass of the loop, lines 126-129
MakeSpermsTrial ==
    /\ pc = "loop" /\ i < t
    /\ IF do_meiosis_raises(spermatogonia) \/ randomize_raises(ref, cv)
       THEN MakeSpermsRaise("ValueError")
       ELSE \E m \in do_meiosis(spermatogonia),
               p \in randomize_proteome(ref, cv, DrawHalves) :
               /\ sperms' = extend(sperms, m.cells)
               /\ spermatogonia' = p
               /\ i' = i + 1
               /\ UNCHANGED <<constructed, ctor, ref, cv, cutoff, crucial_prot,
                              load, hasLoad, pc, t, ret, err>>

\* the loop is over: line 130 and the return
MakeSpermsReturn ==
    /\ pc = "loop" /\ i = t
    /\ load' = store_load(load, sperms) /\ hasLoad' = TRUE
    /\ pc' = "idle" /\ i' = 0 /\ sperms' = <<>>
    /\ ret' = [NoRet EXCEPT !.op = "make_sperms"] /\ err' = "none"
    /\ UNCHANGED <<constructed, ctor, ref, cv, cutoff, crucial_prot,
                   spermatogonia, t>>

\* get_viable_sprems()
GetViableSprems ==
    /\ constructed /\ pc = "idle"
    /\ IF ~hasLoad
       THEN ret' = [NoRet EXCEPT !.op = "get_viable_sprems"] /\ err' = "AttributeError"
       ELSE IF get_viable_raises(load)
       THEN ret' = [NoRet EXCEPT !.op = "get_viable_sprems"] /\ err' = "ZeroDivisionError"
       ELSE /\ ret' = [NoRet EXCEPT !.op = "get_viable_sprems",
                                    !.n = get_viable_sprems(load, ref, cutoff, crucial_prot)]
            /\ err' = "none"
    /\ UNCHANGED <<constructed, ctor, ref, cv, cutoff, crucial_prot, spermatogonia,
                   load, hasLoad, pc, t, i, sperms>>

Next == MakeSpermsCall \/ MakeSpermsTrial \/ MakeSpermsReturn \/ GetViableSprems

Spec == Init /\ [][Next]_vars

----------------------------------------------------------------------------
(* Direct calls of fission and do_meiosis on an instance *)

\* an instance (reference count 1 per key, cv = 0.5) whose founder is any draw
InitDivision ==
    \E keys \in KeySets :
        \E p \in Proteomes(keys, 0 - 1, MaxN) :
            /\ constructed = TRUE
            /\ ctor = [ref |-> [k \in keys |-> 1], cutoff |-> Float(2),
                       crucial_prot |-> Float(4), cv |-> 2]
            /\ ref = [k \in keys |-> 1] /\ cv = 2
            /\ cutoff = 2 /\ crucial_prot = 4
            /\ spermatogonia = p
            /\ load = <<>> /\ hasLoad = FALSE
            /\ pc = "idle" /\ t = 0 /\ i = 0 /\ sperms = <<>>
            /\ ret = NoRet
            /\ err = "none"

\* fission(mother_prot) for any proteome the caller passes
Fission ==
    /\ constructed /\ pc = "idle"
    /\ \E keys \in KeySets :
         \E mother_prot \in Proteomes(keys, 0 - 1, MaxN) :
            IF fission_raises(mother_prot)
            THEN /\ ret' = [NoRet EXCEPT !.op = "fission", !.args = <<mother_prot>>]
                 /\ err' = "ValueError"
            ELSE \E d \in fission(mother_prot) :
                 /\ ret' = [NoRet EXCEPT !.op = "fission", !.args = <<mother_prot>>,
                                         !.cells = <<d[1], d[2]>>]
                 /\ err' = "none"
    /\ UNCHANGED <<constructed, ctor, ref, cv, cutoff, crucial_prot, spermatogonia,
                   load, hasLoad, pc, t, i, sperms>>

\* do_meiosis() on the founder the instance holds
DoMeiosis ==
    /\ constructed /\ pc = "idle"
    /\ IF do_meiosis_raises(spermatogonia)
       THEN /\ ret' = [NoRet EXCEPT !.op = "do_meiosis", !.args = <<spermatogonia>>]
            /\ err' = "ValueError"
       ELSE \E m \in do_meiosis(spermatogonia) :
            /\ ret' = [NoRet EXCEPT !.op = "do_meiosis", !.args = <<spermatogonia>>,
                                    !.mid = m.mid, !.cells = m.cells]
            /\ err' = "none"
    /\ UNCHANGED <<constructed, ctor, ref, cv, cutoff, crucial_prot, spermatogonia,
                   load, hasLoad, pc, t, i, sperms>>

NextDivision == Fission \/ DoMeiosis

SpecDivision == InitDivision /\ [][NextDivision]_vars

----------------------------------------------------------------------------
(* Direct calls of is_viable on a fresh instance *)

ViableCutoffs == {2, 3, 4}
ViableCrucials == {2, 4}

\* a fresh instance with cv = 0.5
InitViable ==
    \E keys \in KeySets :
      \E r \in Proteomes(keys, 0, MaxGam), q \in ViableCutoffs, cp \in ViableCrucials :
        \E f \in randomize_proteome(r, 2, 0..(2 * MaxGam)) :
            /\ constructed = TRUE
            /\ ctor = [ref |-> r, cutoff |-> Float(q), crucial_prot |-> Float(cp), cv |-> 2]
            /\ ref = r /\ cv = 2
            /\ cutoff = q /\ crucial_prot = cp
            /\ spermatogonia = f
            /\ load = <<>> /\ hasLoad = FALSE
            /\ pc = "idle" /\ t = 0 /\ i = 0 /\ sperms = <<>>
            /\ ret = NoRet
            /\ err = "none"

\* is_viable(sperm) for any Cell over the reference's keys
IsViable ==
    /\ constructed /\ pc = "idle"
    /\ \E sperm \in Proteomes(DOMAIN ref, 0, MaxGam) :
         IF is_viable_raises(sperm)
         THEN /\ ret' = [NoRet EXCEPT !.op = "is_viable", !.args = <<sperm>>]
              /\ err' = "ZeroDivisionError"
         ELSE /\ ret' = [NoRet EXCEPT !.op = "is_viable", !.args = <<sperm>>,
                                      !.b = is_viable(sperm, ref, cutoff, crucial_prot)]
              /\ err' = "none"
    /\ UNCHANGED <<constructed, ctor, ref, cv, cutoff, crucial_prot, spermatogonia,
                   load, hasLoad, pc, t, i, sperms>>

NextViable == IsViable

SpecViable == InitViable /\ [][NextViable]_vars

----------------------------------------------------------------------------
(* get_viable_sprems on an instance that has run make_sperms(1) *)

\* an instance with cv = 0.5 after make_sperms(1): the load is the outcome of
\* one meiosis of a drawn founder, the founder in place a fresh draw
InitCount ==
    \E keys \in KeySets :
      \E r \in Proteomes(keys, 0, MaxGam), q \in ViableCutoffs, cp \in ViableCrucials :
        \E f \in randomize_proteome(r, 2, 0..(2 * MaxGam)) :
          \E m \in do_meiosis(f) :
            /\ constructed = TRUE
            /\ ctor = [ref |-> r, cutoff |-> Float(q), crucial_prot |-> Float(cp), cv |-> 2]
            /\ ref = r /\ cv = 2
            /\ cutoff = q /\ crucial_prot = cp
            /\ spermatogonia = r
            /\ load = m.cells /\ hasLoad = TRUE
            /\ pc = "idle" /\ t = 1 /\ i = 0 /\ sperms = <<>>
            /\ ret = [NoRet EXCEPT !.op = "make_sperms"]
            /\ err = "none"

NextCount == GetViableSprems

SpecCount == InitCount /\ [][NextCount]_vars

----------------------------------------------------------------------------
(* Properties *)

\* C1: a call of fission on a mother with non-negative counts raises nothing
\* and returns two daughters over the mother's keys such that, for every
\* protein, the two counts add up to the mother's and the first lies between
\* 0 and the mother's; a count of 0 gives 0 in both daughters.
C1_FissionConserves ==
    (ret.op = "fission" /\ NonNeg(ret.args[1])) =>
        /\ err = "none"
        /\ Len(ret.cells) = 2
        /\ DOMAIN ret.cells[1] = DOMAIN ret.args[1]
        /\ DOMAIN ret.cells[2] = DOMAIN ret.args[1]
        /\ \A k \in DOMAIN ret.args[1] :
              /\ ret.cells[1][k] + ret.cells[2][k] = ret.args[1][k]
              /\ 0 <= ret.cells[1][k] /\ ret.cells[1][k] <= ret.args[1][k]
              /\ (ret.args[1][k] = 0 => ret.cells[1][k] = 0 /\ ret.cells[2][k] = 0)

\* fission has split unevenly a mother holding a protein with count 0 and one
\* with the largest count
C1_Witness ==
    /\ ret.op = "fission" /\ err = "none"
    /\ DOMAIN ret.args[1] = {"A", "B"}
    /\ ret.args[1]["A"] = 0 /\ ret.args[1]["B"] = MaxN
    /\ ret.cells[1]["B"] = 0 /\ ret.cells[2]["B"] = MaxN

\* C2: do_meiosis on a founder with non-negative counts returns exactly four
\* gametes [s1, s2, s3, s4] with s1 + s2 = c1, s3 + s4 = c2 and c1 + c2 =
\* founder for every protein, so the four gametes add up to the founder.
C2_MeiosisFourGametes ==
    ret.op = "do_meiosis" =>
        /\ NonNeg(ret.args[1]) => err = "none"
        /\ err = "none" =>
              /\ Len(ret.cells) = 4 /\ Len(ret.mid) = 2
              /\ \A k \in DOMAIN ret.args[1] :
                    /\ ret.cells[1][k] + ret.cells[2][k] = ret.mid[1][k]
                    /\ ret.cells[3][k] + ret.cells[4][k] = ret.mid[2][k]
                    /\ ret.mid[1][k] + ret.mid[2][k] = ret.args[1][k]
                    /\ ret.cells[1][k] + ret.cells[2][k] + ret.cells[3][k]
                         + ret.cells[4][k] = ret.args[1][k]

\* do_meiosis has returned from a first division with unequal daughters, both
\* of which divided unevenly
C2_Witness ==
    /\ ret.op = "do_meiosis" /\ err = "none"
    /\ DOMAIN ret.args[1] = {"A", "B"}
    /\ ret.mid[1] # ret.mid[2]
    /\ ret.cells[1] # ret.cells[2]
    /\ ret.cells[3] # ret.cells[4]

\* the proteins of a sperm that reach the cutoff, as the set the claim counts
FunctionalSet(sperm) == { k \in DOMAIN sperm : 4 * sperm[k] >= cutoff * ref[k] }

\* C3: is_viable returns True exactly when the number of proteins with
\* sperm[i] >= cutoff * ref[i], divided by the number of keys, is at least
\* crucial_prot; both comparisons are inclusive, so a sperm that sits exactly
\* on cutoff * ref[i] for every protein is viable, as is one of zero counts
\* against zero references.
C3_ViableIffProportion ==
    (ret.op = "is_viable" /\ err = "none") =>
        LET sperm == ret.args[1]
            n == Cardinality(DOMAIN sperm)
        IN /\ n > 0
           /\ ret.b <=> (4 * Cardinality(FunctionalSet(sperm)) >= crucial_prot * n)
           /\ (\A k \in DOMAIN sperm : 4 * sperm[k] = cutoff * ref[k]) => ret.b
           /\ (\A k \in DOMAIN sperm : sperm[k] = 0 /\ ref[k] = 0) => ret.b

\* is_viable has accepted a sperm on both boundaries: one protein exactly at
\* cutoff * ref, another below it, and the proportion exactly crucial_prot
C3_Witness ==
    /\ ret.op = "is_viable" /\ err = "none" /\ ret.b
    /\ \E k \in DOMAIN ret.args[1] :
          ref[k] > 0 /\ 4 * ret.args[1][k] = cutoff * ref[k]
    /\ \E k \in DOMAIN ret.args[1] : k \notin FunctionalSet(ret.args[1])
    /\ 4 * Cardinality(FunctionalSet(ret.args[1]))
          = crucial_prot * Cardinality(DOMAIN ret.args[1])

\* the gametes of the load that are viable, as the set the claim counts
ViableSet == { k \in 1..Len(load) :
                 4 * Cardinality(FunctionalSet(load[k]))
                    >= crucial_prot * Cardinality(DOMAIN load[k]) }

\* C4: when make_sperms(t) has returned, the load holds exactly 4 * t gametes
\* whatever was loaded before, and the value get_viable_sprems returns is the
\* number of gametes of the load that are viable, between 0 and the size of
\* the load, which is 4 times the argument of the make_sperms that set it.
C4_LoadIsFourT ==
    /\ (ret.op = "make_sperms" /\ err = "none") => (hasLoad /\ Len(load) = 4 * t)
    /\ hasLoad => \E n \in 0..MaxT : Len(load) = 4 * n
    /\ (ret.op = "get_viable_sprems" /\ err = "none") =>
          /\ ret.n = Cardinality(ViableSet)
          /\ 0 <= ret.n /\ ret.n <= Len(load)

\* get_viable_sprems has counted some but not all gametes of a load made by
\* the largest number of trials
C4_Witness ==
    /\ ret.op = "get_viable_sprems" /\ err = "none"
    /\ Len(load) = 4 * MaxT /\ MaxT > 1
    /\ 0 < ret.n /\ ret.n < Len(load)

\* the cutoffs a second simulator may have, in quarters
TwinCutoffs == { q : q \in 0..6 }

\* C5: with the reference, crucial_prot and gametes of this simulator, a
\* second simulator with a cutoff at least as large never counts more viable
\* gametes than get_viable_sprems returned here, and one with a cutoff at
\* most as large never counts fewer.
C5_CutoffMonotone ==
    (ret.op = "get_viable_sprems" /\ err = "none") =>
        \A q \in TwinCutoffs :
            /\ q >= cutoff => get_viable_sprems(load, ref, q, crucial_prot) <= ret.n
            /\ q <= cutoff => get_viable_sprems(load, ref, q, crucial_prot) >= ret.n

\* get_viable_sprems has returned a count that a larger cutoff lowers
C5_Witness ==
    /\ ret.op = "get_viable_sprems" /\ err = "none" /\ ret.n > 0
    /\ \E q \in TwinCutoffs :
          q > cutoff /\ get_viable_sprems(load, ref, q, crucial_prot) < ret.n

\* C6: with cv >= 0 every Cell of the simulator (the founder, the gametes
\* collected by make_sperms and those of the load) holds non-negative counts.
C6_CellsNonNegative ==
    (constructed /\ cv >= 0) =>
        /\ NonNeg(spermatogonia)
        /\ \A k \in 1..Len(sperms) : NonNeg(sperms[k])
        /\ \A k \in 1..Len(load) : NonNeg(load[k])

\* C7: fission on a mother with a negative count fails with
\* InvalidProteomeState and returns no daughters.
C7_NegativeIsInvalidProteomeState ==
    (ret.op = "fission" /\ ~NonNeg(ret.args[1])) =>
        (err = "InvalidProteomeState" /\ ret.cells = <<>>)

\* the configurations the claim calls invalid: cutoff or crucial_prot not a
\* number or outside (0, 1], or cv negative
InvalidConfiguration(a) ==
    \/ ~a.cutoff.isFloat \/ a.cutoff.q \notin 1..4
    \/ ~a.crucial_prot.isFloat \/ a.crucial_prot.q \notin 1..4
    \/ a.cv < 0

\* C8: constructing with an invalid configuration fails with
\* InvalidConfiguration, so no instance with such parameters exists.
C8_InvalidConfigurationRejected ==
    InvalidConfiguration(ctor) => (~constructed /\ err = "InvalidConfiguration")

\* C9: is_viable on a gamete without protein keys fails with
\* InvalidProteomeState.
C9_EmptyIsInvalidProteomeState ==
    (ret.op = "is_viable" /\ DOMAIN ret.args[1] = {}) =>
        err = "InvalidProteomeState"

====
